---- MODULE Spec2Model ----
(***************************************************************************)
(* Model of notebooks/ultimate_forward_rate/ufr_example.ipynb: the swap    *)
(* quotes held in relinkable handles, the lazily bootstrapped FTK curve,   *)
(* the two last-liquid-forward-rate (LLFR) handles kept up to date by      *)
(* observers, the UFR 2015 / 2024 / 2021 term structures built on them,    *)
(* the liabilities pricers and the bump-and-reprice sensitivity loop.      *)
(*                                                                         *)
(* Numbers.  A rate, a log-discount and a present value are counted in     *)
(* units of 2.5e-5, so that BUMP = 1.0e-4 is 4 and 1.0 is ONE = 40000.     *)
(* Weights, omega, alpha and times in years are plain rationals <<n, d>>.  *)
(* Quote values are floats: bump_quote adds with rounding to PREC          *)
(* significant bits (round to nearest, ties to even).  What QuantLib       *)
(* computes from the quotes is modelled in exact rational arithmetic, with *)
(* exp replaced by rational surrogates: e^-x by 1 - x where a discount     *)
(* factor is formed, e^x - 1 by a convex piecewise-linear function (and    *)
(* log(1 + z) by its exact inverse) where the compounding of a rate is     *)
(* converted, and e^x by (2 + x) / (2 - x) inside the convergence factor   *)
(* B(h).  To first order the par rate of a swap is the zero rate to its    *)
(* maturity, so a quote r at tenor T gives the node -log P(T) = r * T.     *)
(***************************************************************************)
EXTENDS Integers, Sequences, FiniteSets, TLC

\* ---------------------------------------------------------------- bounds
\* Number of quotes in today's swap-rate file (a prefix of TenorGrid).
NumQuotes == 2
\* Significant bits of the floating-point format of the quote values.
PREC == 3
\* Weights a caller may pass when blending: the multiples k / WeightGrid of
\* 1 / WeightGrid from -1 / WeightGrid to 1 + 1 / WeightGrid.
WeightGrid == 4
MaxHalvings == 5
\* the number of times a handle is relinked in a run of the observer example
MaxLinks == 3

\* ------------------------------------------------------------- rationals
Abs(x) == IF x < 0 THEN -x ELSE x

RECURSIVE GCD(_, _)
GCD(a, b) == IF b = 0 THEN a ELSE GCD(b, a % b)

\* the rational n / d (d # 0) in lowest terms with a positive denominator
Norm(n, d) ==
    IF d < 0
    THEN LET g == GCD(Abs(n), -d) IN << (-n) \div g, (-d) \div g >>
    ELSE LET g == GCD(Abs(n), d) IN << n \div g, d \div g >>

Q(n) == << n, 1 >>

RAdd(a, b) ==
    IF a[2] = b[2] THEN Norm(a[1] + b[1], a[2])
    ELSE LET g == GCD(a[2], b[2])
             l == (a[2] \div g) * b[2]
         IN  Norm(a[1] * (l \div a[2]) + b[1] * (l \div b[2]), l)

RNeg(a) == << -a[1], a[2] >>

RSub(a, b) == RAdd(a, RNeg(b))

RMul(a, b) ==
    IF a[1] = 0 \/ b[1] = 0 THEN Q(0)
    ELSE LET x == Norm(a[1], b[2])
             y == Norm(b[1], a[2])
         IN  Norm(x[1] * y[1], x[2] * y[2])

RDiv(a, b) == RMul(a, Norm(b[2], b[1]))

RLess(a, b) == RSub(a, b)[1] < 0

RLeq(a, b) == RSub(a, b)[1] <= 0

SetMax(S) == CHOOSE x \in S : \A y \in S : y <= x

SetMin(S) == CHOOSE x \in S : \A y \in S : x <= y

\* ----------------------------------------------------------------- floats
RECURSIVE Pow2(_)
Pow2(n) == IF n = 0 THEN 1 ELSE 2 * Pow2(n - 1)

\* spacing of the representable numbers around magnitude a
RECURSIVE Ulp(_)
Ulp(a) == IF a < Pow2(PREC) THEN 1 ELSE 2 * Ulp(a \div 2)

\* x rounded to the nearest representable number, ties to the even significand
RoundFloat(x) ==
    LET a  == Abs(x)
        u  == Ulp(a)
        lo == (a \div u) * u
        r  == a - lo
        m  == IF 2 * r < u THEN lo
              ELSE IF 2 * r > u THEN lo + u
              ELSE IF (lo \div u) % 2 = 0 THEN lo ELSE lo + u
    IN  IF x < 0 THEN -m ELSE m

\* Python's float addition
FloatAdd(a, b) == RoundFloat(a + b)

\* -------------------------------------------------------------- constants
BUMP == 4
SCALING == 4
ONE == 10000 * BUMP

SETTLEMENT_DAYS == 2
AVERAGE_POINTS == 5

FIRST_SMOOTHING_POINT_2015 == 20
ALPHA_2015 == << 1, 10 >>
OMEGA_2015 == Norm(8, 15)
\* the weights halved, which makes their sum less than one
WEIGHTS_2015_halved ==
    << << 25, Norm(1, 2) >>, << 30, Norm(1, 4) >>, << 40, Norm(1, 8) >>, << 50, Norm(1, 16) >> >>

WEIGHTS_2015 ==
    << << 25, Q(1) >>, << 30, Norm(1, 2) >>, << 40, Norm(1, 4) >>, << 50, Norm(1, 8) >> >>

FIRST_SMOOTHING_POINT_2024 == 30
ALPHA_2024 == << 1, 50 >>
OMEGA_2024 == Q(1)
WEIGHTS_2024 == << << 40, Norm(2, 3) >>, << 50, Norm(1, 3) >> >>

\* 0.018 and 0.016, annually compounded
ufr_2015_compounded == 720
ufr_2024_compounded == 640

\* 29 January 2021, as a day number counted from 31 December 2020
VALUATION_DATE == 29

\* ------------------------------------------------------- rate conversions
\* exp(x) - 1 on rates: x up to 0.5% (200 units) and slope 81/80 beyond, a convex
\* piecewise-linear surrogate within one unit of exp(x) - 1 up to 2%
Expm1(x) ==
    IF RLeq(x, Q(200)) THEN x
    ELSE RAdd(Q(200), RMul(Norm(81, 80), RSub(x, Q(200))))

\* log(1 + z): the inverse of Expm1
Log1p(z) ==
    IF RLeq(z, Q(200)) THEN z
    ELSE RAdd(Q(200), RMul(Norm(80, 81), RSub(z, Q(200))))

\* InterestRate.equivalentRate(Continuous): z_c = log(1 + z)
ContinuousFromAnnual(z) == Log1p(z)

\* z = exp(z_c) - 1
AnnualFromContinuous(zc) == Expm1(zc)

ufr_2015_continuous == ContinuousFromAnnual(Q(ufr_2015_compounded))
ufr_2024_continuous == ContinuousFromAnnual(Q(ufr_2024_compounded))

\* ------------------------------------------------------------ market data
\* tenors, in years, of the rows of a swap-rate file
TenorGrid == << 30, 50, 20, 10 >>

Tenors == { TenorGrid[i] : i \in 1..NumQuotes }

\* read_swap_quotes(date) for the four previous days: the rows of that day's file
PreviousFile(date) == [ T \in Tenors |-> IF (date + T \div 10) % 2 = 0 THEN 6 ELSE 7 ]

\* today's file: one of these
TodayFiles ==
    { [ T \in Tenors |-> 6 ], [ T \in Tenors |-> IF T = 30 THEN 5 ELSE 6 ] }

\* the liabilities file: (years from the reference date, amount)
LiabilityFiles ==
    { << >>,
      << [t |-> 10, amount |-> 2], [t |-> 25, amount |-> -1], [t |-> 60, amount |-> 3] >> }

\* times at which the curves are sampled
QueryTimes == { 10, 20, 25, 30, 40, 60 }

\* ------------------------------------------------------------- FTK curve
\* the node -log P(T) that the swap quoted at rate r for tenor T bootstraps to
SwapRateHelper(T, r) == r * T

\* build_ftk_curve: the nodes of the curve bootstrapped from the quotes
\* (a function tenor -> rate), with the node (0, 0) at the reference date
PiecewiseLogLinearDiscount(quotes) ==
    [ T \in (DOMAIN quotes) \cup {0} |-> IF T = 0 THEN 0 ELSE SwapRateHelper(T, quotes[T]) ]

\* the zero yields at the nodes of a curve; the yield at time 0 is that of the
\* first pillar
ZeroYields(nodes) ==
    LET K     == DOMAIN nodes
        first == SetMin(K \ {0})
    IN  [ k \in K |-> IF k = 0 THEN Norm(nodes[first], first) ELSE Norm(nodes[k], k) ]

\* the two nodes of the segment t falls in (the last segment past the last node)
SegmentLo(K, t) ==
    IF t >= SetMax(K) THEN SetMax(K \ {SetMax(K)}) ELSE SetMax({ k \in K : k <= t })

SegmentHi(K, t) ==
    IF t >= SetMax(K) THEN SetMax(K) ELSE SetMin({ k \in K : k > t })

Slope(f, a, b) == RDiv(RSub(f[b], f[a]), Q(b - a))

\* ql.Linear: f at t on the segment of t
Linear(f, t) ==
    LET lo == SegmentLo(DOMAIN f, t)
        hi == SegmentHi(DOMAIN f, t)
    IN  RAdd(f[lo], RMul(Norm(t - lo, hi - lo), RSub(f[hi], f[lo])))

\* -log P(t) of a zero curve whose zero yield is z up to the last node tMax and
\* whose instantaneous forward is flat past it: instFwdMax = zMax + tMax z'(tMax)
ZeroCurve(z, zt, dMax, t) ==
    LET tMax == SetMax(DOMAIN z)
    IN  IF t <= tMax THEN RMul(Q(t), zt)
        ELSE RAdd(RMul(Q(tMax), z[tMax]),
                  RMul(RAdd(z[tMax], RMul(Q(tMax), dMax)), Q(t - tMax)))

\* ql.PiecewiseLinearZero: -log P(t) with the zero yield linear between the nodes
LinearZero(nodes, t) ==
    LET z    == ZeroYields(nodes)
        tMax == SetMax(DOMAIN nodes)
    IN  ZeroCurve(z, Linear(z, IF t <= tMax THEN t ELSE tMax),
                  Slope(z, SegmentLo(DOMAIN z, tMax), tMax), t)

\* a variant of LogLinear that keeps the zero yield flat between the nodes, at
\* the yield of the node that ends the segment
LogLinear_flat_zero_yield(nodes, t) ==
    LET K == DOMAIN nodes
        k == IF t >= SetMax(K) THEN SetMax(K) ELSE SetMin({ j \in K \ {0} : j >= t })
    IN  RMul(Q(t), Norm(nodes[k], k))

\* -log P(t): linear between the nodes around t, and past the last node the
\* last segment continued (extrapolation is enabled on every curve)
LogLinear(nodes, t) ==
    LET K    == DOMAIN nodes
        last == SetMax(K)
    IN  IF t \in K THEN Q(nodes[t])
        ELSE LET lo == IF t > last THEN SetMax(K \ {last}) ELSE SetMax({ k \in K : k < t })
                 hi == IF t > last THEN last ELSE SetMin({ k \in K : k > t })
             IN  RAdd(Q(nodes[lo]),
                      RMul(Norm(t - lo, hi - lo), Q(nodes[hi] - nodes[lo])))

\* crv.forwardRate(d1, d2, dayCounter, Continuous).rate()
forwardRate(nodes, t1, t2) ==
    RDiv(RSub(LogLinear(nodes, t2), LogLinear(nodes, t1)), Q(t2 - t1))

\* the derivative a cubic interpolation gives f at an inner node k: the harmonic
\* mean of the slopes of the two segments at k, or 0 where they differ in sign
KrugerInner(f, k) ==
    LET K  == DOMAIN f
        s1 == Slope(f, SetMax({ j \in K : j < k }), k)
        s2 == Slope(f, k, SetMin({ j \in K : j > k }))
    IN  IF RLess(Q(0), RMul(s1, s2))
        THEN RDiv(RMul(Q(2), RMul(s1, s2)), RAdd(s1, s2))
        ELSE Q(0)

\* the derivative at any node: at the two ends (3 S - d) / 2 with S the slope of
\* the end segment and d the derivative at the neighbouring node
Kruger(f, k) ==
    LET K == DOMAIN f
    IN  IF k = SetMin(K)
        THEN LET n == SetMin(K \ {k})
             IN  RDiv(RSub(RMul(Q(3), Slope(f, k, n)), KrugerInner(f, n)), Q(2))
        ELSE IF k = SetMax(K)
        THEN LET p == SetMax(K \ {k})
             IN  RDiv(RSub(RMul(Q(3), Slope(f, p, k)), KrugerInner(f, p)), Q(2))
        ELSE KrugerInner(f, k)

\* ql.Cubic: the cubic through (lo, f[lo]) and (hi, f[hi]) with the derivatives
\* above at both ends, at t on the segment [lo, hi] of t
Cubic(f, t) ==
    LET lo == SegmentLo(DOMAIN f, t)
        hi == SegmentHi(DOMAIN f, t)
        h  == Q(hi - lo)
        x  == Norm(t - lo, hi - lo)
        x2 == RMul(x, x)
        x3 == RMul(x2, x)
        h00 == RAdd(RSub(RMul(Q(2), x3), RMul(Q(3), x2)), Q(1))
        h10 == RAdd(RSub(x3, RMul(Q(2), x2)), x)
        h01 == RSub(RMul(Q(3), x2), RMul(Q(2), x3))
        h11 == RSub(x3, x2)
    IN  RAdd(RAdd(RMul(f[lo], h00), RMul(RMul(h, Kruger(f, lo)), h10)),
             RAdd(RMul(f[hi], h01), RMul(RMul(h, Kruger(f, hi)), h11)))

\* ql.PiecewiseCubicZero: -log P(t) with the zero yield cubic between the nodes
CubicZero(nodes, t) ==
    LET z    == ZeroYields(nodes)
        tMax == SetMax(DOMAIN nodes)
    IN  ZeroCurve(z, Cubic(z, IF t <= tMax THEN t ELSE tMax), Kruger(z, tMax), t)

\* ql.PiecewiseLogCubicDiscount: -log P(t) cubic between the nodes, and past the
\* last node continued with the instantaneous forward at the last node
LogCubic(nodes, t) ==
    LET L    == [ k \in DOMAIN nodes |-> Q(nodes[k]) ]
        tMax == SetMax(DOMAIN nodes)
    IN  IF t <= tMax THEN Cubic(L, t)
        ELSE RAdd(L[tMax], RMul(Kruger(L, tMax), Q(t - tMax)))

\* the loop of calculate_last_liquid_forward over weights[1..k]
RECURSIVE llfr_loop(_, _, _, _)
llfr_loop(nodes, fsp, weights, k) ==
    IF k = 0 THEN Q(0)
    ELSE RAdd(llfr_loop(nodes, fsp, weights, k - 1),
              RMul(weights[k][2], forwardRate(nodes, fsp, weights[k][1])))

calculate_last_liquid_forward_omega_first(nodes, fsp, weights, omega) ==
    RAdd(RMul(RMul(weights[1][2], forwardRate(nodes, fsp, weights[1][1])), omega),
         RSub(llfr_loop(nodes, fsp, weights, Len(weights)),
              RMul(weights[1][2], forwardRate(nodes, fsp, weights[1][1]))))

\* the sum returned without the factor omega
calculate_last_liquid_forward_unscaled(nodes, fsp, weights, omega) ==
    llfr_loop(nodes, fsp, weights, Len(weights))

calculate_last_liquid_forward(nodes, fsp, weights, omega) ==
    RMul(llfr_loop(nodes, fsp, weights, Len(weights)), omega)

\* build_ftk_curve(valuation_date, quote_handles), run under the global `today`:
\* the settlement date is advanced from `today`, valuation_date is not read, and
\* the curve is a lazy object that bootstraps from its quote handles when first read
build_ftk_curve(global_today, valuation_date, quote_handles) ==
    [ referenceDate |-> global_today + SETTLEMENT_DAYS,
      calculated    |-> FALSE,
      nodes         |-> [ T \in {0} |-> 0 ] ]

\* LazyObject.calculate(): bootstrap from the current quotes unless the cached
\* nodes are still marked as calculated
calculate(crv, quotes) ==
    IF crv.calculated THEN crv
    ELSE [ crv EXCEPT !.calculated = TRUE, !.nodes = PiecewiseLogLinearDiscount(quotes) ]

\* LazyObject.update(): the notification a curve gets from its rate helpers
invalidate(crv) == [ crv EXCEPT !.calculated = FALSE ]

\* the quote handles of swap_quotes as a function tenor -> current value
QuoteMap(quotes) ==
    [ T \in { quotes[i].tenor : i \in DOMAIN quotes } |->
        (CHOOSE i \in DOMAIN quotes : quotes[i].tenor = T) ]

Values(quotes) ==
    [ T \in DOMAIN QuoteMap(quotes) |-> quotes[QuoteMap(quotes)[T]].quote ]

\* ------------------------------------------------------ the market state
\* S = [quotes, ftk, previous, llfr_2015, llfr_2024]: swap_quotes, the curve behind
\* ftk_handle, the four previous days' curves and the values of the two LLFR handles

llfr_2015(S) ==
    calculate_last_liquid_forward(S.ftk.nodes, FIRST_SMOOTHING_POINT_2015,
                                  WEIGHTS_2015, OMEGA_2015)

\* sum of calculate_last_liquid_forward over handles[1..k]
RECURSIVE llfr_2024_sum(_, _)
llfr_2024_sum(handles, k) ==
    IF k = 0 THEN Q(0)
    ELSE RAdd(llfr_2024_sum(handles, k - 1),
              calculate_last_liquid_forward(handles[k].nodes, FIRST_SMOOTHING_POINT_2024,
                                            WEIGHTS_2024, OMEGA_2024))

\* the list with ftk_handle appended a second time
previous_ftk_curves_handles_appended_twice(S) == Append(Append(S.previous, S.ftk), S.ftk)

\* previous_ftk_curves_handles: the previous days' curves, then ftk_handle
previous_ftk_curves_handles(S) == Append(S.previous, S.ftk)

llfr_2024_today_only(S) ==
    calculate_last_liquid_forward(S.ftk.nodes, FIRST_SMOOTHING_POINT_2024,
                                  WEIGHTS_2024, OMEGA_2024)

llfr_2024(S) ==
    RDiv(llfr_2024_sum(previous_ftk_curves_handles(S),
                       Len(previous_ftk_curves_handles(S))),
         Q(AVERAGE_POINTS))

\* reading ftk_handle makes the curve calculate
read_ftk(S) == [ S EXCEPT !.ftk = calculate(S.ftk, Values(S.quotes)) ]

update_llfr_handle_2015(S) ==
    LET R == read_ftk(S) IN [ R EXCEPT !.llfr_2015 = llfr_2015(R) ]

update_llfr_handle_2024(S) ==
    LET R == read_ftk(S) IN [ R EXCEPT !.llfr_2024 = llfr_2024(R) ]

\* the observers registered with every quote handle
Observers == { "SwapRateHelper", "llfr_2015_observer", "llfr_2024_observer" }

\* the orders in which a handle's observer set can be walked
ObserverOrders ==
    { o \in [ 1..3 -> Observers ] : { o[i] : i \in 1..3 } = Observers }

\* Observer.update() of one observer
update(observer, S) ==
    CASE observer = "SwapRateHelper"     -> [ S EXCEPT !.ftk = invalidate(S.ftk) ]
      [] observer = "llfr_2015_observer" -> update_llfr_handle_2015(S)
      [] observer = "llfr_2024_observer" -> update_llfr_handle_2024(S)

\* Observable.notifyObservers(): order[k..] are notified one after the other
RECURSIVE notifyObservers(_, _, _)
notifyObservers(order, k, S) ==
    IF k > Len(order) THEN S
    ELSE notifyObservers(order, k + 1, update(order[k], S))

\* quote_handle.linkTo(ql.SimpleQuote(value)) on the i-th handle of swap_quotes
linkTo(S, i, value, order) ==
    notifyObservers(order, 1, [ S EXCEPT !.quotes[i].quote = value ])

\* bump_quote(quote_handle, bump): the handle is relinked to a new quote holding
\* quote_handle.value() + bump, a floating-point sum
bump_quote(S, i, bump, order) ==
    linkTo(S, i, FloatAdd(S.quotes[i].quote, bump), order)

\* ------------------------------------------------------- term structures
Curves == { "ftk", "ufr_2015", "ufr_2024", "ufr_2021" }

\* a variant of Beta with the sign of the exponent flipped: (e^(alpha h) - 1) / (alpha h)
Beta_sign_flipped(alpha, h) == RDiv(RAdd(Q(2), RMul(alpha, Q(h))), Q(2))

\* the convergence factor B(h) = (1 - exp(-alpha h)) / (alpha h)
Beta(alpha, h) == RDiv(Q(2), RAdd(Q(2), RMul(alpha, Q(h))))

\* continuous zero yield at t of ql.UltimateForwardTermStructure(base curve,
\* llfr, ufr, fsp, alpha)
UltimateForwardTermStructure_no_cutoff(nodes, llfr, ufr, fsp, alpha, t) ==
    LET deltaT   == t - fsp
        baseRate == RDiv(LogLinear(nodes, fsp), Q(fsp))
        extrapolatedForward == RAdd(ufr, RMul(RSub(llfr, ufr), Beta(alpha, deltaT)))
    IN  RDiv(RAdd(RMul(Q(fsp), baseRate), RMul(Q(deltaT), extrapolatedForward)), Q(t))

UltimateForwardTermStructure(nodes, llfr, ufr, fsp, alpha, t) ==
    LET deltaT == t - fsp
    IN  IF deltaT > 0
        THEN LET baseRate == RDiv(LogLinear(nodes, fsp), Q(fsp))
                 extrapolatedForward ==
                     RAdd(ufr, RMul(RSub(llfr, ufr), Beta(alpha, deltaT)))
             IN  RDiv(RAdd(RMul(Q(fsp), baseRate), RMul(Q(deltaT), extrapolatedForward)),
                      Q(t))
        ELSE RDiv(LogLinear(nodes, t), Q(t))

ufr_2015_crv(S, t) ==
    UltimateForwardTermStructure(S.ftk.nodes, S.llfr_2015, ufr_2015_continuous,
                                 FIRST_SMOOTHING_POINT_2015, ALPHA_2015, t)

ufr_2024_crv(S, t) ==
    UltimateForwardTermStructure(S.ftk.nodes, S.llfr_2024, ufr_2024_continuous,
                                 FIRST_SMOOTHING_POINT_2024, ALPHA_2024, t)

weighting_function(first, second) ==
    RAdd(RMul(Norm(3, 4), first), RMul(Norm(1, 4), second))

\* continuous zero yield at t of ql.CompositeZeroYieldStructure(ufr_2015_handle,
\* ufr_2024_handle, weighting_function, ql.Compounded, ql.Annual): the two annually
\* compounded zero rates are combined and the result is converted back
ufr_2021_crv_continuous_blend(S, t) ==
    weighting_function(ufr_2015_crv(S, t), ufr_2024_crv(S, t))

ufr_2021_crv(S, t) ==
    ContinuousFromAnnual(weighting_function(AnnualFromContinuous(ufr_2015_crv(S, t)),
                                            AnnualFromContinuous(ufr_2024_crv(S, t))))

\* the continuous zero yield a curve handle returns at t > 0; the read makes
\* the FTK curve calculate
zeroYield(curve, S, t) ==
    LET R == read_ftk(S)
    IN  CASE curve = "ftk"      -> RDiv(LogLinear(R.ftk.nodes, t), Q(t))
          [] curve = "ufr_2015" -> ufr_2015_crv(R, t)
          [] curve = "ufr_2024" -> ufr_2024_crv(R, t)
          [] curve = "ufr_2021" -> ufr_2021_crv(R, t)

\* curve_handle.zeroRate(d, d_counter, ql.Compounded, ql.Annual).rate()
zeroRate(curve, S, t) == AnnualFromContinuous(zeroYield(curve, S, t))

\* discount_handle.discount(dt) = exp(-z_c t)
discount(curve, S, t) == RSub(Q(ONE), RMul(zeroYield(curve, S, t), Q(t)))

\* ------------------------------------------------------------- the pricer
\* value(cash_flows) of liabilities_pricer(discount_handle), over cash_flows[1..k]
RECURSIVE value(_, _, _, _)
value(curve, S, cash_flows, k) ==
    IF k = 0 THEN Q(0)
    ELSE RAdd(value(curve, S, cash_flows, k - 1),
              RMul(discount(curve, S, cash_flows[k].t), Q(cash_flows[k].amount)))

liabilities_pricer_outflows_only(curve, S, cash_flows) ==
    value(curve, S, SelectSeq(cash_flows, LAMBDA cf : cf.amount > 0),
          Len(SelectSeq(cash_flows, LAMBDA cf : cf.amount > 0)))

liabilities_pricer(curve, S, cash_flows) == value(curve, S, cash_flows, Len(cash_flows))

\* (pricer(liabilities) - npv) / BUMP * SCALING
sensitivity(pv, npv_base) == RMul(RDiv(RSub(pv, npv_base), Q(BUMP)), Q(SCALING))

\* ------------------------------------------------------------------ state
VARIABLES
    today,                  \* the global valuation date
    swap_quotes,            \* list of [tenor, quote]: quote is the handle's value
    observers,              \* per quote handle, the order its observers are notified in
    ftk_handle,             \* the curve behind ftk_handle
    previous_ftk_curves,    \* the curves of the AVERAGE_POINTS - 1 previous days
    llfr_2015_handle,       \* value of llfr_2015_handle
    llfr_2024_handle,       \* value of llfr_2024_handle
    liabilities,            \* list of [t, amount]
    npv,                    \* npv_ftk, npv_ufr_2015, npv_ufr_2024, npv_ufr_2021
    last_value,             \* what each pricer returned when last called
    sensitivities,          \* the four lists of [tenor, delta]
    quotes_before,          \* swap_quotes when the sensitivity loop started
    ufr_2021_handle,        \* the composite curve last built: its weights
    idx,                    \* position of the loop in swap_quotes
    pc,                     \* "setup", "bump_up", "reprice", "bump_down" or "done"
    ts,                     \* a call of build_swap_curve: arguments, curve, last read
    ufr_crv,                \* an UltimateForwardTermStructure read past its FSP
    run2                    \* a second run of the sensitivity loop

vars ==
    << today, swap_quotes, observers, ftk_handle, previous_ftk_curves, llfr_2015_handle,
       llfr_2024_handle, liabilities, npv, last_value, sensitivities, quotes_before,
       ufr_2021_handle, idx, pc, ts, ufr_crv, run2 >>

\* the parts of the state the sensitivity loop of the notebook does not touch
others == << ts, ufr_crv, run2 >>

Market ==
    [ quotes    |-> swap_quotes,
      ftk       |-> ftk_handle,
      previous  |-> previous_ftk_curves,
      llfr_2015 |-> llfr_2015_handle,
      llfr_2024 |-> llfr_2024_handle ]

RowOrders(n) == { p \in [ 1..n -> 1..n ] : { p[i] : i \in 1..n } = 1..n }

\* read_swap_quotes(today): the rows of the file, in the order the file lists them
read_swap_quotes(file, perm) ==
    [ i \in 1..NumQuotes |-> [ tenor |-> TenorGrid[perm[i]], quote |-> file[TenorGrid[perm[i]]] ] ]

previous_valuation_dates(global_today) ==
    [ i \in 1..(AVERAGE_POINTS - 1) |-> global_today - i ]

\* the market state once every cell above the sensitivity loop has run: all the
\* curves have been read at least once
MarketAfterSetup(global_today, quotes) ==
    LET ftk  == calculate(build_ftk_curve(global_today, global_today, quotes), Values(quotes))
        prev == [ i \in 1..(AVERAGE_POINTS - 1) |->
                    calculate(build_ftk_curve(global_today, global_today,
                                  PreviousFile(previous_valuation_dates(global_today)[i])),
                              PreviousFile(previous_valuation_dates(global_today)[i])) ]
        S0   == [ quotes |-> quotes, ftk |-> ftk, previous |-> prev,
                  llfr_2015 |-> Q(0), llfr_2024 |-> Q(0) ]
    IN  [ S0 EXCEPT !.llfr_2015 = llfr_2015(S0), !.llfr_2024 = llfr_2024(S0) ]

\* ql.CompositeZeroYieldStructure(first handle, second handle, f, ...) with
\* f(first, second) = weights[1] * first + weights[2] * second: the curve is built
\* around the callable, which is only called when a rate is asked for
CompositeZeroYieldStructure(weights) ==
    [ weights |-> weights, built |-> TRUE, error |-> "none" ]

\* no curve has been built by build_swap_curve, no UFR curve is being read past
\* its FSP, and there is no second run of the loop
Idle ==
    /\ ts = [ pc |-> "idle" ]
    /\ ufr_crv = [ pc |-> "idle" ]
    /\ run2 = [ pc |-> "idle" ]

\* the state once the notebook has run down to the sensitivity loop
InitMarket(file, perm, cfs) ==
        LET S == MarketAfterSetup(VALUATION_DATE, read_swap_quotes(file, perm))
        IN  /\ today = VALUATION_DATE
            /\ swap_quotes = S.quotes
            /\ ftk_handle = S.ftk
            /\ previous_ftk_curves = S.previous
            /\ llfr_2015_handle = S.llfr_2015
            /\ llfr_2024_handle = S.llfr_2024
            /\ liabilities = cfs
            /\ npv = [ c \in Curves |-> liabilities_pricer(c, S, cfs) ]
            /\ last_value = [ c \in Curves |-> liabilities_pricer(c, S, cfs) ]
            /\ sensitivities = [ c \in Curves |-> << >> ]
            /\ quotes_before = S.quotes
            /\ ufr_2021_handle = CompositeZeroYieldStructure(<< Norm(3, 4), Norm(1, 4) >>)
            /\ idx = 1
            /\ pc = "bump_up"

Init ==
    \E file \in TodayFiles, perm \in RowOrders(NumQuotes), cfs \in LiabilityFiles :
        /\ InitMarket(file, perm, cfs)
        /\ Idle
        /\ observers \in [ Tenors -> ObserverOrders ]

\* ---------------------------------------------------- the sensitivity loop
SetMarket(S) ==
    /\ swap_quotes' = S.quotes
    /\ ftk_handle' = S.ftk
    /\ previous_ftk_curves' = S.previous
    /\ llfr_2015_handle' = S.llfr_2015
    /\ llfr_2024_handle' = S.llfr_2024

\* bump_quote(quote, BUMP)
BumpUp ==
    /\ pc = "bump_up"
    /\ SetMarket(bump_quote(Market, idx, BUMP, observers[swap_quotes[idx].tenor]))
    /\ pc' = "reprice"
    /\ UNCHANGED << today, observers, liabilities, npv, last_value, sensitivities,
                    quotes_before, ufr_2021_handle, idx, others >>

\* a variant of append_sensitivities that puts the new entry at the front
append_sensitivities_at_front(lists, tenor, pv, base) ==
    [ c \in Curves |->
        << [ tenor |-> tenor, delta |-> sensitivity(pv[c], base[c]) ] >> \o lists[c] ]

\* sensitivities_ftk.append((tenor, (ftk_pricer.value() - npv_ftk) / BUMP * SCALING))
\* and the same for the three UFR curves
append_sensitivities(lists, tenor, pv, base) ==
    [ c \in Curves |->
        Append(lists[c], [ tenor |-> tenor, delta |-> sensitivity(pv[c], base[c]) ]) ]

\* the four appends between the two bumps
Reprice ==
    /\ pc = "reprice"
    /\ LET R  == read_ftk(Market)
           pv == [ c \in Curves |-> liabilities_pricer(c, R, liabilities) ]
       IN  /\ SetMarket(R)
           /\ last_value' = pv
           /\ sensitivities' = append_sensitivities(sensitivities, swap_quotes[idx].tenor,
                                                    pv, npv)
    /\ pc' = "bump_down"
    /\ UNCHANGED << today, observers, liabilities, npv, quotes_before, ufr_2021_handle,
                    idx, others >>

\* bump_quote(quote, -BUMP), and on to the next quote
BumpDown ==
    /\ pc = "bump_down"
    /\ SetMarket(bump_quote(Market, idx, -BUMP, observers[swap_quotes[idx].tenor]))
    /\ idx' = idx + 1
    /\ pc' = IF idx = Len(swap_quotes) THEN "done" ELSE "bump_up"
    /\ UNCHANGED << today, observers, liabilities, npv, last_value, sensitivities,
                    quotes_before, ufr_2021_handle, others >>

Next == BumpUp \/ Reprice \/ BumpDown

Spec == Init /\ [][Next]_vars

\* ------------------------------------------------ building a swap curve
INTERPOLATION_MAP == { "linear_zero", "linear_log_discount", "cubic_zero", "cubic_log_discount" }

\* build_swap_curve(valuation_date, index, quote_handles, interpolation_method),
\* called while the global today has the value global_today: the curve is built
\* lazily around the helpers, with extrapolation enabled
build_swap_curve(global_today, valuation_date, quote_handles, interpolation_method) ==
    [ referenceDate |-> global_today + SETTLEMENT_DAYS,
      method        |-> interpolation_method,
      extrapolation |-> TRUE,
      calculated    |-> FALSE,
      times         |-> << >>,
      data          |-> << >> ]

RECURSIVE SortedSeq(_)
SortedSeq(S) == IF S = {} THEN << >> ELSE << SetMin(S) >> \o SortedSeq(S \ {SetMin(S)})

\* a variant of bootstrap_times that keeps the pillars in the order of the helpers
bootstrap_times_helper_order(quote_handles) ==
    << 0 >> \o [ i \in DOMAIN quote_handles |-> quote_handles[i].tenor ]

\* the node times of a bootstrapped curve: the reference date, then the pillars
\* of the helpers sorted by date
bootstrap_times(quote_handles) ==
    << 0 >> \o SortedSeq({ quote_handles[i].tenor : i \in DOMAIN quote_handles })

\* what stops the bootstrap: two helpers with one pillar, or a par rate for
\* which no discount factor solves the helper (a rate of -100% or below)
bootstrap_error(quote_handles) ==
    IF \E i, j \in DOMAIN quote_handles :
           i # j /\ quote_handles[i].tenor = quote_handles[j].tenor
    THEN "more than one instrument with pillar"
    ELSE IF \E i \in DOMAIN quote_handles : quote_handles[i].quote <= -ONE
    THEN "root not bracketed"
    ELSE "none"

\* the first read of a curve bootstraps it: the nodes are solved one helper
\* after the other, or the read raises
bootstrap(crv, quote_handles) ==
    IF crv.calculated \/ bootstrap_error(quote_handles) # "none" THEN crv
    ELSE LET times == bootstrap_times(quote_handles)
         IN  [ crv EXCEPT
                 !.calculated = TRUE,
                 !.times = times,
                 !.data  = [ i \in DOMAIN times |->
                               IF times[i] = 0 THEN 0
                               ELSE SwapRateHelper(times[i], Values(quote_handles)[times[i]]) ] ]

\* the nodes of a bootstrapped curve as a function time -> -log P(time)
NodesOf(crv) ==
    [ T \in { crv.times[i] : i \in DOMAIN crv.times } |->
        crv.data[CHOOSE i \in DOMAIN crv.times : crv.times[i] = T] ]

\* a variant of checkRange that lets any time past the last node through
checkRange_extrapolating_always(crv, t) ==
    IF t < 0 THEN "negative time given" ELSE "none"

\* TermStructure.checkRange(t, extrapolate)
checkRange(crv, t) ==
    IF t < 0 THEN "negative time given"
    ELSE IF ~crv.extrapolation /\ t > crv.times[Len(crv.times)]
    THEN "time is past max curve time"
    ELSE "none"

\* -log P(t) of a bootstrapped curve, under its interpolation
discountImpl(crv, t) ==
    CASE crv.method = "linear_zero"         -> LinearZero(NodesOf(crv), t)
      [] crv.method = "linear_log_discount" -> LogLinear(NodesOf(crv), t)
      [] crv.method = "cubic_zero"          -> CubicZero(NodesOf(crv), t)
      [] crv.method = "cubic_log_discount"  -> LogCubic(NodesOf(crv), t)

\* the global valuation dates, the valuation dates passed to the build
\* function and the times at which a built curve is read
TodayInputs == { VALUATION_DATE, VALUATION_DATE + 1 }
ValuationDateInputs == { VALUATION_DATE - 1, VALUATION_DATE }
ReadTimes == { -1, 0, 10, 20, 30, 40, 50, 60 }

\* the quote handles passed to the build function: NumQuotes rows with any
\* tenors of the file in any order, repeated or not; the first row quotes 5, the
\* others 6, and the row numbered bad (if any) quotes a rate of -100%
QuoteHandleInputs ==
    { [ i \in 1..NumQuotes |->
          [ tenor |-> tenors[i],
            quote |-> IF i = bad THEN -ONE ELSE IF i = 1 THEN 5 ELSE 6 ] ] :
        tenors \in [ 1..NumQuotes -> Tenors ], bad \in 0..NumQuotes }

\* the state of the notebook before any of its cells has run: no quotes, no
\* curves, no liabilities
NotStarted ==
    /\ today = VALUATION_DATE
    /\ swap_quotes = << >>
    /\ observers = [ T \in Tenors |-> << >> ]
    /\ ftk_handle = build_ftk_curve(VALUATION_DATE, VALUATION_DATE, << >>)
    /\ previous_ftk_curves = << >>
    /\ llfr_2015_handle = Q(0)
    /\ llfr_2024_handle = Q(0)
    /\ liabilities = << >>
    /\ npv = [ c \in Curves |-> Q(0) ]
    /\ last_value = [ c \in Curves |-> Q(0) ]
    /\ sensitivities = [ c \in Curves |-> << >> ]
    /\ quotes_before = << >>
    /\ ufr_2021_handle = CompositeZeroYieldStructure(<< Norm(3, 4), Norm(1, 4) >>)
    /\ idx = 1
    /\ pc = "setup"

InitBuild ==
    /\ NotStarted
    /\ ufr_crv = [ pc |-> "idle" ]
    /\ run2 = [ pc |-> "idle" ]
    /\ \E global_today \in TodayInputs, valuation_date \in ValuationDateInputs,
          quote_handles \in QuoteHandleInputs, interpolation_method \in INTERPOLATION_MAP :
           ts = [ pc                   |-> "args",
                  today                |-> global_today,
                  valuation_date       |-> valuation_date,
                  quote_handles        |-> quote_handles,
                  interpolation_method |-> interpolation_method,
                  crv                  |-> build_swap_curve(0, 0, << >>, "none"),
                  t                    |-> 0,
                  error                |-> "none",
                  result               |-> Q(0) ]

UnchangedOutsideBuild ==
    UNCHANGED << today, swap_quotes, observers, ftk_handle, previous_ftk_curves,
                 llfr_2015_handle, llfr_2024_handle, liabilities, npv, last_value,
                 sensitivities, quotes_before, ufr_2021_handle, idx, pc, ufr_crv, run2 >>

\* ts = build_swap_curve(valuation_date, index, quote_handles, interpolation_method)
Build ==
    /\ ts.pc = "args"
    /\ ts' = [ ts EXCEPT
                 !.pc  = "built",
                 !.crv = build_swap_curve(ts.today, ts.valuation_date, ts.quote_handles,
                                          ts.interpolation_method) ]
    /\ UnchangedOutsideBuild

\* ts.disableExtrapolation(), which a caller may do on the curve it was given
DisableExtrapolation ==
    /\ ts.pc = "built"
    /\ ts.crv.extrapolation
    /\ ts' = [ ts EXCEPT !.crv.extrapolation = FALSE ]
    /\ UnchangedOutsideBuild

\* ts.discount(t): the curve is bootstrapped if it is not yet, the time is
\* checked against the range of the curve, and the discount factor is
\* interpolated
Read ==
    /\ ts.pc \in { "built", "read" }
    /\ \E t \in ReadTimes :
           LET crv == bootstrap(ts.crv, ts.quote_handles)
               err == IF ~crv.calculated THEN bootstrap_error(ts.quote_handles)
                      ELSE checkRange(crv, t)
           IN  ts' = [ ts EXCEPT
                         !.pc     = "read",
                         !.crv    = crv,
                         !.t      = t,
                         !.error  = err,
                         !.result = IF err = "none"
                                    THEN RSub(Q(ONE), discountImpl(crv, t))
                                    ELSE Q(0) ]
    /\ UnchangedOutsideBuild

NextBuild == Build \/ DisableExtrapolation \/ Read

SpecBuild == InitBuild /\ [][NextBuild]_vars

\* --------------------------------- reading a UFR curve past its first
\* smoothing point
\* the last liquid forward rates, ultimate forward rates, first smoothing
\* points, speeds of convergence and horizons a UFR curve is built and read with
LlfrInputs == { Q(-100), Q(0), Q(300), ufr_2015_continuous, Q(1000) }
UfrInputs == { ufr_2015_continuous, ufr_2024_continuous }
FspInputs == { FIRST_SMOOTHING_POINT_2015, FIRST_SMOOTHING_POINT_2024 }
AlphaInputs == { ALPHA_2015, ALPHA_2024, << 3, 1 >> }
Horizons == { 1, 5, 40 }

InitExtrapolate ==
    /\ NotStarted
    /\ ts = [ pc |-> "idle" ]
    /\ run2 = [ pc |-> "idle" ]
    /\ \E file \in TodayFiles, llfr \in LlfrInputs, ufr \in UfrInputs, fsp \in FspInputs,
          alpha \in AlphaInputs, h \in Horizons :
           ufr_crv = [ pc    |-> "built",
                       nodes |-> PiecewiseLogLinearDiscount(file),
                       llfr  |-> llfr,
                       ufr   |-> ufr,
                       fsp   |-> fsp,
                       alpha |-> alpha,
                       h     |-> h,
                       zero  |-> Q(0) ]

\* the zero yield of ql.UltimateForwardTermStructure(ftk_handle, llfr_handle,
\* ufr_handle, fsp, alpha) at the time fsp + h
Extrapolate ==
    /\ ufr_crv.pc = "built"
    /\ ufr_crv' = [ ufr_crv EXCEPT
                      !.pc   = "read",
                      !.zero = UltimateForwardTermStructure(
                                   ufr_crv.nodes, ufr_crv.llfr, ufr_crv.ufr, ufr_crv.fsp,
                                   ufr_crv.alpha, ufr_crv.fsp + ufr_crv.h) ]
    /\ UNCHANGED << today, swap_quotes, observers, ftk_handle, previous_ftk_curves,
                    llfr_2015_handle, llfr_2024_handle, liabilities, npv, last_value,
                    sensitivities, quotes_before, ufr_2021_handle, idx, pc, ts, run2 >>

NextExtrapolate == Extrapolate

SpecExtrapolate == InitExtrapolate /\ [][NextExtrapolate]_vars

\* ------------------------- reading a UFR curve close to its first smoothing
\* point
\* B(h) at a horizon h that is a fraction of a year
BetaAt(alpha, h) == RDiv(Q(2), RAdd(Q(2), RMul(alpha, h)))

\* a variant of UltimateForwardTermStructureAt that returns the extrapolated
\* forward rate as the zero yield
UltimateForwardTermStructureAt_forward_only(nodes, llfr, ufr, fsp, alpha, deltaT) ==
    RAdd(ufr, RMul(RSub(llfr, ufr), BetaAt(alpha, deltaT)))

\* the zero yield of ql.UltimateForwardTermStructure at the time fsp + deltaT,
\* for a fraction of a year deltaT > 0
UltimateForwardTermStructureAt(nodes, llfr, ufr, fsp, alpha, deltaT) ==
    LET baseRate == RDiv(LogLinear(nodes, fsp), Q(fsp))
        extrapolatedForward == RAdd(ufr, RMul(RSub(llfr, ufr), BetaAt(alpha, deltaT)))
    IN  RDiv(RAdd(RMul(Q(fsp), baseRate), RMul(deltaT, extrapolatedForward)),
             RAdd(Q(fsp), deltaT))

\* the horizons 1, 1/2, 1/4, ... of a year past the first smoothing point, and
\* the values of the LLFR and UFR handles the curve is built on
HorizonsNearFsp == { Norm(1, Pow2(k)) : k \in 0..MaxHalvings }
RatesNearFsp == { Q(-4), Q(0), Q(5), Q(9) }

InitSmoothing ==
    /\ NotStarted
    /\ ts = [ pc |-> "idle" ]
    /\ run2 = [ pc |-> "idle" ]
    /\ \E file \in TodayFiles, llfr \in RatesNearFsp, ufr \in RatesNearFsp, fsp \in FspInputs,
          alpha \in AlphaInputs, h \in HorizonsNearFsp :
           ufr_crv = [ pc    |-> "built_near",
                       nodes |-> PiecewiseLogLinearDiscount(file),
                       llfr  |-> llfr,
                       ufr   |-> ufr,
                       fsp   |-> fsp,
                       alpha |-> alpha,
                       h     |-> h,
                       zero  |-> Q(0) ]

\* the zero yield of the UFR curve at the time fsp + h, h a fraction of a year
ExtrapolateNearFsp ==
    /\ ufr_crv.pc = "built_near"
    /\ ufr_crv' = [ ufr_crv EXCEPT
                      !.pc   = "read_near",
                      !.zero = UltimateForwardTermStructureAt(
                                   ufr_crv.nodes, ufr_crv.llfr, ufr_crv.ufr, ufr_crv.fsp,
                                   ufr_crv.alpha, ufr_crv.h) ]
    /\ UNCHANGED << today, swap_quotes, observers, ftk_handle, previous_ftk_curves,
                    llfr_2015_handle, llfr_2024_handle, liabilities, npv, last_value,
                    sensitivities, quotes_before, ufr_2021_handle, idx, pc, ts, run2 >>

NextSmoothing == ExtrapolateNearFsp

SpecSmoothing == InitSmoothing /\ [][NextSmoothing]_vars

\* ------------------------------------- the loop on a market of curves only
\* the notebook run down to the loop with no liabilities to price, every quote
\* handle walking its observers in the same order
InitBumps ==
    \E file \in TodayFiles, perm \in RowOrders(NumQuotes), order \in ObserverOrders :
        /\ InitMarket(file, perm, << >>)
        /\ Idle
        /\ observers = [ T \in Tenors |-> order ]

NextBumps == BumpUp \/ Reprice \/ BumpDown

SpecBumps == InitBumps /\ [][NextBumps]_vars

\* ------------------------------------------- the loop left through an error
\* the order in which an iteration calls the pricers
PricerOrder == << "ftk", "ufr_2015", "ufr_2021", "ufr_2024" >>

\* a pricer raises between the two bumps of an iteration: the k pricers before
\* it have returned and their sensitivities are appended, the exception leaves
\* the for loop, and the statements after the raising one do not run
RepriceRaises ==
    /\ pc = "reprice"
    /\ \E k \in 0..(Len(PricerOrder) - 1) :
           LET R    == IF k = 0 THEN Market ELSE read_ftk(Market)
               pv   == [ c \in Curves |-> liabilities_pricer(c, R, liabilities) ]
               full == append_sensitivities(sensitivities, swap_quotes[idx].tenor, pv, npv)
           IN  /\ SetMarket(R)
               /\ sensitivities' =
                      [ c \in Curves |->
                          IF \E j \in 1..k : PricerOrder[j] = c THEN full[c]
                          ELSE sensitivities[c] ]
    /\ pc' = "raised"
    /\ UNCHANGED << today, observers, liabilities, npv, last_value, quotes_before,
                    ufr_2021_handle, idx, others >>

NextRaising == BumpUp \/ Reprice \/ BumpDown \/ RepriceRaises

SpecRaising == Init /\ [][NextRaising]_vars

\* --------------------------------- the LLFR estimators applied to a curve

\* the par rates the curves of the estimator runs are built from
RateInputs == { -3, 0, 2, 5, 6, 7 }
CurveInputs == [ Tenors -> RateInputs ]

\* the number of doublings that bring n/d up to a full significand
RECURSIVE Shift(_, _)
Shift(n, d) == IF n = 0 \/ n >= d * Pow2(PREC - 1) THEN 0 ELSE 1 + Shift(2 * n, d)

\* a real number x rounded to the nearest float, ties to the even significand
RoundFloatQ(x) ==
    LET n  == Abs(x[1])
        d  == x[2]
        k  == Shift(n, d)
        s  == n * Pow2(k)
        u  == Ulp(s \div d)
        lo == (s \div (d * u)) * u
        r2 == 2 * (s - lo * d)
        m  == IF r2 < u * d THEN lo
              ELSE IF r2 > u * d THEN lo + u
              ELSE IF (lo \div u) % 2 = 0 THEN lo ELSE lo + u
    IN  Norm(IF x[1] < 0 THEN -m ELSE m, Pow2(k))

\* Python's float product and float sum
FloatMul(a, b) == RoundFloatQ(RMul(a, b))
FloatSum(a, b) == RoundFloatQ(RAdd(a, b))

\* the loop of calculate_last_liquid_forward in float arithmetic:
\* llfr += weight * crv.forwardRate(...), every operation rounded
RECURSIVE llfr_loop_float(_, _, _, _)
llfr_loop_float(nodes, fsp, weights, k) ==
    IF k = 0 THEN Q(0)
    ELSE FloatSum(llfr_loop_float(nodes, fsp, weights, k - 1),
                  FloatMul(RoundFloatQ(weights[k][2]),
                           RoundFloatQ(forwardRate(nodes, fsp, weights[k][1]))))

\* return llfr * omega, in float arithmetic
calculate_last_liquid_forward_float(nodes, fsp, weights, omega) ==
    FloatMul(llfr_loop_float(nodes, fsp, weights, Len(weights)), RoundFloatQ(omega))

\* a curve is built; no estimator has been applied to it
InitEstimator ==
    /\ NotStarted
    /\ ufr_crv = [ pc |-> "idle" ]
    /\ run2 = [ pc |-> "idle" ]
    /\ \E file \in CurveInputs :
           ts = [ pc         |-> "llfr",
                  nodes      |-> PiecewiseLogLinearDiscount(file),
                  done       |-> {},
                  llfr       |-> [ v \in { 2015, 2024 } |-> Q(0) ],
                  llfr_float |-> [ v \in { 2015, 2024 } |-> Q(0) ] ]

\* calculate_last_liquid_forward(crv, fsp, weights, omega) under the conventions
\* of one vintage
Estimate(v, fsp, weights, omega) ==
    /\ ts.pc = "llfr"
    /\ v \notin ts.done
    /\ ts' = [ ts EXCEPT
                 !.done          = @ \cup { v },
                 !.llfr[v]       = calculate_last_liquid_forward(ts.nodes, fsp, weights, omega),
                 !.llfr_float[v] = calculate_last_liquid_forward_float(ts.nodes, fsp, weights,
                                                                       omega) ]
    /\ UnchangedOutsideBuild

Estimate2015 ==
    Estimate(2015, FIRST_SMOOTHING_POINT_2015, WEIGHTS_2015, OMEGA_2015)

Estimate2024 ==
    Estimate(2024, FIRST_SMOOTHING_POINT_2024, WEIGHTS_2024, OMEGA_2024)

NextEstimator == Estimate2015 \/ Estimate2024

SpecEstimator == InitEstimator /\ [][NextEstimator]_vars

\* --------------------------------------------- the files looked up by date
\* the years of the dates looked up: the first and the last year of a ql.Date,
\* a century year that is a leap year, and years of the data
YearInputs == { 1901, 1999, 2000, 2023, 2024, 2199 }

IsLeap(year) == (year % 4 = 0 /\ year % 100 # 0) \/ year % 400 = 0

DaysInMonth(year, month) ==
    IF month = 2 THEN (IF IsLeap(year) THEN 29 ELSE 28)
    ELSE IF month \in { 4, 6, 9, 11 } THEN 30 ELSE 31

\* the dates a ql.Date can hold, over the years above
DateInputs ==
    { d \in [ year : YearInputs, month : 1..12, dayOfMonth : 1..31 ] :
          d.dayOfMonth <= DaysInMonth(d.year, d.month) }

\* the key with the month scaled by ten only
date_as_int_month_times_ten(date) ==
    date.year * 10000 + date.month * 10 + date.dayOfMonth

\* date_as_int = date.year() * 10000 + date.month() * 100 + date.dayOfMonth()
date_as_int(date) ==
    date.year * 10000 + date.month * 100 + date.dayOfMonth

\* str(n) of a positive integer: its decimal digits
RECURSIVE str(_)
str(n) == IF n < 10 THEN << n >> ELSE Append(str(n \div 10), n % 10)

\* a date is given; no file has been looked up
InitLookup ==
    /\ NotStarted
    /\ ufr_crv = [ pc |-> "idle" ]
    /\ run2 = [ pc |-> "idle" ]
    /\ \E date \in DateInputs :
           ts = [ pc |-> "lookup", date |-> date, swap_rates |-> << >>,
                  dnb_ufr_zero_rates |-> << >> ]

\* read_swap_quotes(date), up to the file path: 'data/swap_rates_' + str(date_as_int)
LookupSwapQuotes ==
    /\ ts.pc = "lookup"
    /\ ts.swap_rates = << >>
    /\ ts' = [ ts EXCEPT !.swap_rates = str(date_as_int(ts.date)) ]
    /\ UnchangedOutsideBuild

\* read_dnb_ufr_zero_rates(date), up to the file path
LookupDnbUfrZeroRates ==
    /\ ts.pc = "lookup"
    /\ ts.dnb_ufr_zero_rates = << >>
    /\ ts' = [ ts EXCEPT !.dnb_ufr_zero_rates = str(date_as_int(ts.date)) ]
    /\ UnchangedOutsideBuild

NextLookup == LookupSwapQuotes \/ LookupDnbUfrZeroRates

SpecLookup == InitLookup /\ [][NextLookup]_vars

\* ------------------------------------------------- a handle and its observers
\* the observers registered with a handle: the one of the observer example, or
\* the three that are registered with every quote handle of swap_quotes
RegisteredInputs == { { "observer" }, Observers }

\* the values of the quotes a handle is linked to, in hundredths: 0.0, 0.01 and
\* 20.01 are the ones of the example
QuoteValueInputs == { -4, 0, 1, 17, 2001 }

\* the orders in which the set of observers R can be walked
OrdersOf(R) ==
    { o \in [ 1..Cardinality(R) -> R ] : { o[i] : i \in 1..Cardinality(R) } = R }

\* the callback of an observer runs: it reads observable.value() as it is now
notify_observer(H, observer) ==
    [ H EXCEPT !.notified = Append(@, [ observer |-> observer, value |-> H.value ]) ]

\* Observable.notifyObservers() of a handle: order[k..] are notified in turn
RECURSIVE handle_notifyObservers(_, _, _)
handle_notifyObservers(order, k, H) ==
    IF k > Len(order) THEN H
    ELSE handle_notifyObservers(order, k + 1, notify_observer(H, order[k]))

\* the observers notified before the handle holds the new quote
handle_linkTo_notifying_first(H, quote, order) ==
    [ handle_notifyObservers(order, 1, H) EXCEPT
        !.value = << quote >>, !.links = Append(@, quote) ]

\* observable.linkTo(ql.SimpleQuote(quote)): the handle is relinked, then its
\* observers are notified
handle_linkTo(H, quote, order) ==
    handle_notifyObservers(order, 1,
                           [ H EXCEPT !.value = << quote >>, !.links = Append(@, quote) ])

\* observable = ql.RelinkableQuoteHandle() with its observers registered
InitObservable ==
    /\ NotStarted
    /\ ufr_crv = [ pc |-> "idle" ]
    /\ run2 = [ pc |-> "idle" ]
    /\ \E R \in RegisteredInputs :
           ts = [ pc |-> "observable", registered |-> R, value |-> << >>,
                  links |-> << >>, notified |-> << >> ]

LinkTo ==
    /\ ts.pc = "observable"
    /\ Len(ts.links) < MaxLinks
    /\ \E quote \in QuoteValueInputs, order \in OrdersOf(ts.registered) :
           ts' = handle_linkTo(ts, quote, order)
    /\ UnchangedOutsideBuild

NextObservable == LinkTo

SpecObservable == InitObservable /\ [][NextObservable]_vars

\* ------------------------------------------- blending with other weights
\* the weights a caller may choose for weighting_function
WeightInputs == { Norm(k, WeightGrid) : k \in (-1)..(WeightGrid + 1) }

\* a composite curve is built over the UFR 2015 and UFR 2024 handles with the
\* weights weightA and weightB in the weighting function
Blend ==
    \E weightA \in WeightInputs, weightB \in WeightInputs :
        /\ ufr_2021_handle' = CompositeZeroYieldStructure(<< weightA, weightB >>)
        /\ UNCHANGED << today, swap_quotes, observers, ftk_handle, previous_ftk_curves,
                        llfr_2015_handle, llfr_2024_handle, liabilities, npv, last_value,
                        sensitivities, quotes_before, idx, pc, others >>

InitBlend ==
    \E file \in TodayFiles, perm \in RowOrders(NumQuotes), cfs \in LiabilityFiles :
        /\ InitMarket(file, perm, cfs)
        /\ Idle
        /\ observers =
               [ T \in Tenors |->
                   << "SwapRateHelper", "llfr_2015_observer", "llfr_2024_observer" >> ]

NextBlend == Blend

SpecBlend == InitBlend /\ [][NextBlend]_vars

\* ------------------------------------------------------------- properties
\* the market state a fresh run of the set-up cells gives on the current quotes
FreshMarket == MarketAfterSetup(today, swap_quotes)

\* the quotes whose current value is not the value they had before the loop
Moved == { i \in DOMAIN swap_quotes : swap_quotes[i].quote # quotes_before[i].quote }

\* C1: a bump by BUMP followed by a bump by -BUMP leaves the quote exactly at the
\* value it had: whenever the loop is between two iterations or has ended, every
\* quote holds its original value
C1_BumpRestoresQuote ==
    pc \in { "bump_up", "done" } =>
        \A i \in DOMAIN swap_quotes : swap_quotes[i].quote = quotes_before[i].quote

\* C2: after a quote has been relinked, whatever the order in which its observers
\* ran, the LLFR handles and every curve read afterwards are the ones computed
\* from the current quote values
C2_NoStaleDerivedState ==
    LET F == FreshMarket
    IN  /\ llfr_2015_handle = F.llfr_2015
        /\ llfr_2024_handle = F.llfr_2024
        /\ \A c \in Curves, t \in QueryTimes :
               zeroYield(c, Market, t) = zeroYield(c, F, t)

\* one pass of the loop body on the i-th quote of S: the market it leaves and
\* the delta it appends for each curve
Iteration(S, i, orders, cfs, base) ==
    LET U == bump_quote(S, i, BUMP, orders[S.quotes[i].tenor])
        R == read_ftk(U)
    IN  [ market |-> bump_quote(R, i, -BUMP, orders[S.quotes[i].tenor]),
          delta  |-> [ c \in Curves |->
                         sensitivity(liabilities_pricer(c, R, cfs), base[c]) ] ]

\* the deltas of the quotes i..Len(S.quotes), as a set of [tenor, delta]
RECURSIVE RunLoop(_, _, _, _, _)
RunLoop(S, i, orders, cfs, base) ==
    IF i > Len(S.quotes) THEN { }
    ELSE LET it == Iteration(S, i, orders, cfs, base)
         IN  { [ tenor |-> S.quotes[i].tenor, delta |-> it.delta ] }
                 \cup RunLoop(it.market, i + 1, orders, cfs, base)

\* the loop run from the same starting market with the quotes visited in the
\* order of the tenor grid
GridOrderDeltas ==
    RunLoop(MarketAfterSetup(today,
                             [ i \in 1..NumQuotes |->
                                 [ tenor |-> TenorGrid[i],
                                   quote |-> Values(quotes_before)[TenorGrid[i]] ] ]),
            1, observers, liabilities, npv)

\* C3: the delta recorded for a quote does not depend on the order in which the
\* loop visits the quotes: it is the delta the grid-order run records for it
C3_DeltaIndependentOfOrder ==
    pc = "done" =>
        \A c \in Curves, i \in DOMAIN swap_quotes :
            \E d \in GridOrderDeltas :
                /\ d.tenor = sensitivities[c][i].tenor
                /\ d.delta[c] = sensitivities[c][i].delta

\* C4: throughout the loop at most one quote is away from its original value,
\* and then by exactly BUMP; when an iteration starts none is
C4_OneQuoteBumped ==
    /\ Cardinality(Moved) <= 1
    /\ \A i \in Moved : swap_quotes[i].quote - quotes_before[i].quote = BUMP
    /\ pc \in { "bump_up", "done" } => Moved = { }

\* C5: at every query time the annually compounded zero rate of the UFR 2021
\* curve is 0.75 times that of the UFR 2015 curve plus 0.25 times that of the
\* UFR 2024 curve, in the base state and after every bump
C5_CompositeIsWeightedAverage ==
    \A t \in QueryTimes :
        RMul(Q(4), zeroRate("ufr_2021", Market, t))
            = RAdd(RMul(Q(3), zeroRate("ufr_2015", Market, t)),
                   zeroRate("ufr_2024", Market, t))

\* a bumped quote is in place and at 60 years the two blended rates lie on
\* different sides of the kink of the compounding conversion
C5_Witness ==
    /\ pc = "bump_down"
    /\ Moved # { }
    /\ RLess(Q(200), zeroYield("ufr_2015", Market, 60))
    /\ RLess(zeroYield("ufr_2024", Market, 60), Q(200))

\* C7: at every query time up to its first smoothing point a UFR curve returns
\* the zero rate and the discount factor of the FTK curve, in the base state
\* and after every bump
C7_BaseCurveUpToFSP ==
    \A t \in QueryTimes :
        /\ t <= FIRST_SMOOTHING_POINT_2015 =>
               /\ zeroRate("ufr_2015", Market, t) = zeroRate("ftk", Market, t)
               /\ discount("ufr_2015", Market, t) = discount("ftk", Market, t)
        /\ t <= FIRST_SMOOTHING_POINT_2024 =>
               /\ zeroRate("ufr_2024", Market, t) = zeroRate("ftk", Market, t)
               /\ discount("ufr_2024", Market, t) = discount("ftk", Market, t)

\* a bumped quote is in place and past the first smoothing points both UFR
\* curves have left the FTK curve
C7_Witness ==
    /\ pc = "reprice"
    /\ Moved # { }
    /\ \E t \in QueryTimes :
           /\ t > FIRST_SMOOTHING_POINT_2024
           /\ zeroRate("ufr_2015", Market, t) # zeroRate("ftk", Market, t)
           /\ zeroRate("ufr_2024", Market, t) # zeroRate("ftk", Market, t)

\* the 2024 LLFR of one curve, as the formula of the LLFR note has it
LLFR_2024_Formula(nodes) ==
    RAdd(RMul(Norm(2, 3), forwardRate(nodes, 30, 40)),
         RMul(Norm(1, 3), forwardRate(nodes, 30, 50)))

\* the 2015 LLFR of one curve, as the formula of the LLFR note has it
LLFR_2015_Formula(nodes) ==
    RMul(Norm(8, 15),
         RAdd(RAdd(forwardRate(nodes, 20, 25),
                   RMul(Norm(1, 2), forwardRate(nodes, 20, 30))),
              RAdd(RMul(Norm(1, 4), forwardRate(nodes, 20, 40)),
                   RMul(Norm(1, 8), forwardRate(nodes, 20, 50)))))

\* llfr_2024() is the mean of AVERAGE_POINTS values, the ones of the previous
\* days each on a curve bootstrapped from that day's file and the last one on
\* the curve behind ftk_handle
MeanOfDailyLLFR ==
    LET R == read_ftk(Market)
    IN  /\ RMul(Q(AVERAGE_POINTS), llfr_2024(R))
               = RAdd(RAdd(RAdd(LLFR_2024_Formula(previous_ftk_curves[1].nodes),
                                LLFR_2024_Formula(previous_ftk_curves[2].nodes)),
                           RAdd(LLFR_2024_Formula(previous_ftk_curves[3].nodes),
                                LLFR_2024_Formula(previous_ftk_curves[4].nodes))),
                      LLFR_2024_Formula(R.ftk.nodes))
        /\ R.ftk.nodes = PiecewiseLogLinearDiscount(Values(swap_quotes))
        /\ \A i \in 1..(AVERAGE_POINTS - 1) :
               previous_ftk_curves[i].nodes
                   = PiecewiseLogLinearDiscount(PreviousFile(today - i))

\* C8 as stated: the 2024 LLFR is the mean of AVERAGE_POINTS daily values, each on
\* a curve bootstrapped from that day's quotes as of that day's valuation date
C8_OwnValuationDate ==
    /\ MeanOfDailyLLFR
    /\ ftk_handle.referenceDate = today + SETTLEMENT_DAYS
    /\ \A i \in 1..(AVERAGE_POINTS - 1) :
           previous_ftk_curves[i].referenceDate = (today - i) + SETTLEMENT_DAYS

\* C8 amended: the 2024 LLFR is the mean of AVERAGE_POINTS daily values, each on
\* its own curve bootstrapped from that day's quotes, and every one of these
\* curves is built as of the one valuation date `today`
C8_MeanOverCurvesAsOfToday ==
    /\ MeanOfDailyLLFR
    /\ ftk_handle.referenceDate = today + SETTLEMENT_DAYS
    /\ \A i \in 1..(AVERAGE_POINTS - 1) :
           previous_ftk_curves[i].referenceDate = today + SETTLEMENT_DAYS

\* the observer has refreshed llfr_2024_handle after a bump, and the daily
\* curves that enter the mean are not all the same
C8_Witness ==
    /\ pc = "reprice"
    /\ Moved # { }
    /\ llfr_2024_handle = llfr_2024(read_ftk(Market))
    /\ previous_ftk_curves[1].nodes # previous_ftk_curves[2].nodes
    /\ \A i \in 1..(AVERAGE_POINTS - 1) : previous_ftk_curves[i].nodes # ftk_handle.nodes

\* C9: calculate_last_liquid_forward is omega times the weighted sum of the
\* forward rates from the first smoothing point to the tenors: on every curve
\* of the notebook the 2015 inputs give (8/15)(f(20,25) + f(20,30)/2 + f(20,40)/4
\* + f(20,50)/8) and the 2024 inputs give (2/3) f(30,40) + (1/3) f(30,50)
C9_LastLiquidForwardFormula ==
    \A crv \in { read_ftk(Market).ftk } \cup
                { previous_ftk_curves[i] : i \in DOMAIN previous_ftk_curves } :
        /\ calculate_last_liquid_forward(crv.nodes, FIRST_SMOOTHING_POINT_2015,
                                         WEIGHTS_2015, OMEGA_2015)
               = LLFR_2015_Formula(crv.nodes)
        /\ calculate_last_liquid_forward(crv.nodes, FIRST_SMOOTHING_POINT_2024,
                                         WEIGHTS_2024, OMEGA_2024)
               = LLFR_2024_Formula(crv.nodes)

\* a bumped quote is in place and the forward rates past 20 years are not flat
C9_Witness ==
    /\ pc = "reprice"
    /\ Moved # { }
    /\ forwardRate(read_ftk(Market).ftk.nodes, 20, 25)
           # forwardRate(read_ftk(Market).ftk.nodes, 20, 50)

\* sum of amount times discount factor over the cash flows with index in I
RECURSIVE DiscountedSum(_, _, _, _)
DiscountedSum(curve, S, cash_flows, I) ==
    IF I = { } THEN Q(0)
    ELSE LET k == CHOOSE j \in I : TRUE
         IN  RAdd(RMul(Q(cash_flows[k].amount), discount(curve, S, cash_flows[k].t)),
                  DiscountedSum(curve, S, cash_flows, I \ { k }))

\* C10: what a pricer returns is the sum over all the cash flows, whatever their
\* sign and also when there are none, of amount times the discount factor of the
\* curve as it is when the pricer is called
C10_PresentValue ==
    /\ pc = "bump_down" =>
           \A c \in Curves :
               last_value[c] = DiscountedSum(c, Market, liabilities, DOMAIN liabilities)
    /\ pc = "bump_up" /\ idx = 1 =>
           \A c \in Curves :
               npv[c] = DiscountedSum(c, Market, liabilities, DOMAIN liabilities)

\* the pricers have just repriced, under a bumped quote, a list that holds
\* amounts of both signs, and the value has moved
C10_Witness ==
    /\ pc = "bump_down"
    /\ \E k \in DOMAIN liabilities : liabilities[k].amount < 0
    /\ \E k \in DOMAIN liabilities : liabilities[k].amount > 0
    /\ \A c \in Curves : last_value[c] # npv[c]

\* the weights sum to one and each lies in [0, 1]
ValidWeights(weights) ==
    /\ RAdd(weights[1], weights[2]) = Q(1)
    /\ RLeq(Q(0), weights[1]) /\ RLeq(weights[1], Q(1))
    /\ RLeq(Q(0), weights[2]) /\ RLeq(weights[2], Q(1))

\* C6: building a composite curve with weights that do not sum to one, or with a
\* weight outside [0, 1], fails with InvalidWeightError and produces no curve; a
\* composite curve exists only for valid weights
C6_InvalidWeightsRejected ==
    /\ ufr_2021_handle.built => ValidWeights(ufr_2021_handle.weights)
    /\ ~ ValidWeights(ufr_2021_handle.weights) =>
           ufr_2021_handle.error = "InvalidWeightError"

\* the present value under a curve when every piece of derived state is
\* computed from the given quotes
FreshValue(c, quotes) ==
    liabilities_pricer(c, MarketAfterSetup(today, quotes), liabilities)

\* the quotes as they were before the loop, with BUMP added to the i-th
OnlyBumped(i) ==
    [ quotes_before EXCEPT ![i].quote = quotes_before[i].quote + BUMP ]

\* C11: the sensitivity reported for a quote under a curve is the present value
\* under that curve with only this quote bumped by BUMP, minus the base present
\* value under the same curve with no quote bumped, divided by BUMP and
\* multiplied by SCALING
C11_SensitivityFormula ==
    pc = "bump_down" =>
        \A c \in Curves :
            RMul(Q(BUMP), sensitivities[c][idx].delta)
                = RMul(Q(SCALING),
                       RSub(FreshValue(c, OnlyBumped(idx)), FreshValue(c, quotes_before)))

\* the times at which the interpolation is examined
SubIntervalTimes == { 5 * k : k \in 0..12 }

\* the pairs of consecutive nodes of a curve
ConsecutiveNodes(nodes) ==
    { p \in (DOMAIN nodes) \X (DOMAIN nodes) :
        /\ p[1] < p[2]
        /\ \A k \in DOMAIN nodes : ~(p[1] < k /\ k < p[2]) }

\* the nodes of the curve that was built and read, and whether it is one
\* interpolated linearly on the log of the discount factor
BuiltNodes == NodesOf(ts.crv)
LogLinearCurveRead ==
    ts.pc = "read" /\ ts.crv.calculated /\ ts.crv.method = "linear_log_discount"

\* the forward rate over a whole segment between two consecutive nodes
SegmentForward(nodes, p) == Norm(nodes[p[2]] - nodes[p[1]], p[2] - p[1])

\* C12: under linear interpolation on the log of the discount factor, log P(T)
\* between two consecutive nodes is the linear interpolation of the log discount
\* factors of the nodes, and the forward rate over every sub-interval of the
\* segment is the same constant (the forward curve is a staircase)
C12_StaircaseForwards ==
    LogLinearCurveRead =>
    \A p \in ConsecutiveNodes(BuiltNodes) :
        \A t1 \in SubIntervalTimes :
            /\ (p[1] <= t1 /\ t1 <= p[2]) =>
                    RMul(Q(p[2] - p[1]), LogLinear(BuiltNodes, t1))
                        = RAdd(RMul(Q(p[2] - t1), Q(BuiltNodes[p[1]])),
                               RMul(Q(t1 - p[1]), Q(BuiltNodes[p[2]])))
            /\ \A t2 \in SubIntervalTimes :
                    (p[1] <= t1 /\ t1 < t2 /\ t2 <= p[2]) =>
                        forwardRate(BuiltNodes, t1, t2) = SegmentForward(BuiltNodes, p)

\* a curve whose two segments have different forward rates, the forward rate
\* over a strict sub-interval of each being that of the segment
C12_Witness ==
    /\ LogLinearCurveRead
    /\ \E p \in ConsecutiveNodes(BuiltNodes), q \in ConsecutiveNodes(BuiltNodes) :
           /\ p[2] = q[1]
           /\ SegmentForward(BuiltNodes, p) # SegmentForward(BuiltNodes, q)
           /\ forwardRate(BuiltNodes, p[1] + 5, p[2] - 5) = SegmentForward(BuiltNodes, p)
           /\ forwardRate(BuiltNodes, q[1] + 5, q[2] - 5) = SegmentForward(BuiltNodes, q)

\* ------------------------------------------- two runs of the sensitivity loop
\* the swap rate files the two runs start from (with the rate 4 or 6 every bump
\* is exact), and the orders in which every quote handle notifies its observers
RunFiles == TodayFiles \cup { [ T \in Tenors |-> IF T = 30 THEN 4 ELSE 6 ] }
RunObserverOrders ==
    { << "SwapRateHelper", "llfr_2015_observer", "llfr_2024_observer" >>,
      << "llfr_2015_observer", "llfr_2024_observer", "SwapRateHelper" >> }

\* the second run works on the quote handles of the first run ("shared"), or on
\* quote handles, curves and LLFR handles of its own ("copy"); serial is what one
\* run alone records from the starting market
InitRuns ==
    \E file \in RunFiles, order \in RunObserverOrders, mode \in { "shared", "copy" } :
        /\ InitMarket(file, [ i \in 1..NumQuotes |-> i ],
                      CHOOSE cfs \in LiabilityFiles : cfs # << >>)
        /\ observers = [ T \in Tenors |-> order ]
        /\ ts = [ pc |-> "idle" ]
        /\ ufr_crv = [ pc |-> "idle" ]
        /\ run2 = [ pc            |-> "bump_up",
                    idx           |-> 1,
                    mode          |-> mode,
                    market        |-> Market,
                    sensitivities |-> [ c \in Curves |-> << >> ],
                    serial        |-> RunLoop(Market, 1, observers, liabilities, npv) ]

\* a variant of run2_market in which the copy of the second run still holds the
\* quote handles of the first run
run2_market_shallow_copy == Market

\* the market the second run bumps and reprices
run2_market == IF run2.mode = "copy" THEN run2.market ELSE Market

\* the second run leaves the market S behind
SetMarket2(S, next) ==
    IF run2.mode = "copy"
    THEN /\ run2' = [ next EXCEPT !.market = S ]
         /\ UNCHANGED << swap_quotes, ftk_handle, previous_ftk_curves, llfr_2015_handle,
                         llfr_2024_handle >>
    ELSE /\ run2' = next
         /\ SetMarket(S)

UnchangedByRun2 ==
    UNCHANGED << today, observers, liabilities, npv, last_value, sensitivities,
                 quotes_before, ufr_2021_handle, idx, pc, ts, ufr_crv >>

\* bump_quote(quote, BUMP) in the second run
BumpUp2 ==
    /\ run2.pc = "bump_up"
    /\ SetMarket2(bump_quote(run2_market, run2.idx, BUMP,
                             observers[run2_market.quotes[run2.idx].tenor]),
                  [ run2 EXCEPT !.pc = "reprice" ])
    /\ UnchangedByRun2

\* the four appends of the second run
Reprice2 ==
    /\ run2.pc = "reprice"
    /\ LET R  == read_ftk(run2_market)
           pv == [ c \in Curves |-> liabilities_pricer(c, R, liabilities) ]
       IN  SetMarket2(R, [ run2 EXCEPT
                             !.pc = "bump_down",
                             !.sensitivities =
                                 append_sensitivities(run2.sensitivities,
                                                      R.quotes[run2.idx].tenor, pv, npv) ])
    /\ UnchangedByRun2

\* bump_quote(quote, -BUMP) in the second run, and on to the next quote
BumpDown2 ==
    /\ run2.pc = "bump_down"
    /\ SetMarket2(bump_quote(run2_market, run2.idx, -BUMP,
                             observers[run2_market.quotes[run2.idx].tenor]),
                  [ run2 EXCEPT
                      !.idx = run2.idx + 1,
                      !.pc  = IF run2.idx = Len(run2_market.quotes)
                              THEN "done" ELSE "bump_up" ])
    /\ UnchangedByRun2

NextRuns == BumpUp \/ Reprice \/ BumpDown \/ BumpUp2 \/ Reprice2 \/ BumpDown2

SpecRuns == InitRuns /\ [][NextRuns]_vars

\* the delta one run alone records for the quote of a tenor under a curve
SerialDelta(tenor, c) == (CHOOSE e \in run2.serial : e.tenor = tenor).delta[c]

\* the entries of the two runs that differ from what one run alone records
Disturbed(lists) ==
    { << c, i >> \in Curves \X (1..NumQuotes) :
        /\ i \in DOMAIN lists[c]
        /\ lists[c][i].delta # SerialDelta(lists[c][i].tenor, c) }

Restored(q) == FloatAdd(FloatAdd(q, BUMP), -BUMP)

\* C18: every sensitivity list gets exactly one entry per quote of swap_quotes, in
\* the order of swap_quotes; the i-th entry carries the tenor of the i-th quote and
\* the delta of the value repriced while the bump of that quote, and of no other
\* quote, was in force
C18_EntriesAlignedWithQuotes ==
    \A c \in Curves :
        /\ Len(sensitivities[c]) <= Len(swap_quotes)
        /\ \A i \in DOMAIN sensitivities[c] :
               sensitivities[c][i].tenor = swap_quotes[i].tenor
        /\ pc = "done" => Len(sensitivities[c]) = Len(swap_quotes)
        /\ pc = "bump_down" =>
               /\ Len(sensitivities[c]) = idx
               /\ sensitivities[c][idx].delta = sensitivity(last_value[c], npv[c])
               /\ swap_quotes[idx].quote = FloatAdd(quotes_before[idx].quote, BUMP)
               /\ \A j \in DOMAIN swap_quotes :
                      /\ j < idx => swap_quotes[j].quote = Restored(quotes_before[j].quote)
                      /\ j > idx => swap_quotes[j].quote = quotes_before[j].quote

\* the loop has ended on a list of quotes whose tenors are not in increasing
\* order, with a non-zero delta for every quote under the ftk curve
C18_Witness ==
    /\ pc = "done"
    /\ swap_quotes[1].tenor > swap_quotes[2].tenor
    /\ Len(sensitivities["ftk"]) = Len(swap_quotes)
    /\ \A i \in DOMAIN swap_quotes :
           /\ sensitivities["ftk"][i].tenor = swap_quotes[i].tenor
           /\ sensitivities["ftk"][i].delta # Q(0)

\* the extrapolated forward rate of the curve that was read, recovered from the
\* zero yield it returned at the horizon h past its first smoothing point:
\* z(fsp + h) (fsp + h) = z(fsp) fsp + h * extrapolatedForward
ExtrapolatedForward ==
    RDiv(RSub(RMul(Q(ufr_crv.fsp + ufr_crv.h), ufr_crv.zero),
              LogLinear(ufr_crv.nodes, ufr_crv.fsp)),
         Q(ufr_crv.h))

StrictlyBetween(x, a, b) ==
    \/ RLess(a, x) /\ RLess(x, b)
    \/ RLess(b, x) /\ RLess(x, a)

Distance(a, b) == IF RLess(a, b) THEN RSub(b, a) ELSE RSub(a, b)

\* C20: for every horizon h > 0 and every alpha > 0, when the last liquid
\* forward rate differs from the ultimate forward rate, 0 < B(h) < 1 and the
\* extrapolated forward rate UFR + (LLFR - UFR) B(h) lies strictly between the
\* two; with the first smoothing point at 20 years, alpha = 0.1 and h = 1 it is
\* closer to the last liquid forward rate than to the ultimate forward rate
C20_ExtrapolatedForwardBetween ==
    (ufr_crv.pc = "read" /\ ufr_crv.llfr # ufr_crv.ufr) =>
        /\ RLess(Q(0), Beta(ufr_crv.alpha, ufr_crv.h))
        /\ RLess(Beta(ufr_crv.alpha, ufr_crv.h), Q(1))
        /\ StrictlyBetween(ExtrapolatedForward, ufr_crv.llfr, ufr_crv.ufr)
        /\ ( /\ ufr_crv.fsp = FIRST_SMOOTHING_POINT_2015
             /\ ufr_crv.alpha = ALPHA_2015
             /\ ufr_crv.h = 1 ) =>
                RLess(Distance(ExtrapolatedForward, ufr_crv.llfr),
                      Distance(ExtrapolatedForward, ufr_crv.ufr))

\* the UFR 2015 curve read one year past its first smoothing point, with a last
\* liquid forward rate below the ultimate forward rate: the extrapolated forward
\* rate has left the former and is still nearer to it
C20_Witness ==
    /\ ufr_crv.pc = "read"
    /\ ufr_crv.fsp = FIRST_SMOOTHING_POINT_2015
    /\ ufr_crv.alpha = ALPHA_2015
    /\ ufr_crv.h = 1
    /\ ufr_crv.ufr = ufr_2015_continuous
    /\ RLess(ufr_crv.llfr, ufr_crv.ufr)
    /\ RLess(ufr_crv.llfr, ExtrapolatedForward)
    /\ RLess(Distance(ExtrapolatedForward, ufr_crv.llfr),
             Distance(ExtrapolatedForward, ufr_crv.ufr))

\* the discount factor a bootstrapped curve returns at t
DiscountFactor(crv, t) == RSub(Q(ONE), discountImpl(crv, t))

\* C13: under each of the four interpolations, a built curve returns at every
\* node time the discount factor bootstrapped for that node, its node times are
\* strictly increasing, and its discount factor at time 0 is 1
C13_NodesReproduced ==
    (ts.pc = "read" /\ ts.crv.calculated) =>
        LET times == ts.crv.times
        IN  /\ \A i, j \in DOMAIN times : i < j => times[i] < times[j]
            /\ DiscountFactor(ts.crv, 0) = Q(ONE)
            /\ \A i \in DOMAIN ts.quote_handles :
                   DiscountFactor(ts.crv, ts.quote_handles[i].tenor)
                       = Q(ONE - SwapRateHelper(ts.quote_handles[i].tenor,
                                                ts.quote_handles[i].quote))
            /\ \A i \in DOMAIN times :
                   (ts.error = "none" /\ ts.t = times[i]) =>
                       ts.result = Q(ONE - ts.crv.data[i])

\* a cubic zero curve built from helpers listed with the longer tenor first, read
\* at its first pillar, where it returns the bootstrapped discount factor
C13_Witness ==
    /\ ts.pc = "read"
    /\ ts.crv.calculated
    /\ ts.error = "none"
    /\ ts.crv.method = "cubic_zero"
    /\ ts.quote_handles[1].tenor > ts.quote_handles[2].tenor
    /\ ts.t = ts.crv.times[2]
    /\ ts.result = Q(ONE - ts.crv.data[2])
    /\ ts.crv.data[2] > 0

StrictlyIncreasingTenors(quote_handles) ==
    \A i, j \in DOMAIN quote_handles :
        i < j => quote_handles[i].tenor < quote_handles[j].tenor

\* C14: a curve is returned only for quote lists with unique, strictly
\* increasing tenors; a list with a repeated tenor or with tenors out of order
\* makes the build fail and return no curve
C14_OnlyIncreasingTenors ==
    (ts.pc = "read" /\ ts.crv.calculated /\ ts.error = "none") =>
        StrictlyIncreasingTenors(ts.quote_handles)

\* C15: a build either solves every node and returns a complete curve, or fails
\* as a whole and returns nothing: a build that has returned a curve to its
\* caller has no node that cannot be solved
C15_BuildSolvesOrFails ==
    ts.pc = "built" => bootstrap_error(ts.quote_handles) # "root not bracketed"

\* C16: a read fails at a negative time, and at a time past the last node when
\* extrapolation is disabled; with extrapolation enabled, as it is on every
\* curve the build function returns, a read at any non-negative time returns a
\* value, past the last node too
C16_RangeOfQueries ==
    /\ ts.pc # "idle" =>
            build_swap_curve(ts.today, ts.valuation_date, ts.quote_handles,
                             ts.interpolation_method).extrapolation
    /\ (ts.pc = "read" /\ ts.crv.calculated) =>
           LET tMax == ts.crv.times[Len(ts.crv.times)]
           IN  /\ ts.t < 0 => ts.error # "none"
               /\ (ts.t > tMax /\ ~ts.crv.extrapolation) => ts.error # "none"
               /\ (ts.t >= 0 /\ ts.t <= tMax) => ts.error = "none"
               /\ (ts.t >= 0 /\ ts.crv.extrapolation) =>
                      /\ ts.error = "none"
                      /\ ts.result = DiscountFactor(ts.crv, ts.t)

\* a curve with extrapolation enabled read past its last node, where it returns
\* a discount factor below that of the last node
C16_Witness ==
    /\ ts.pc = "read"
    /\ ts.crv.calculated
    /\ ts.crv.extrapolation
    /\ ts.t > ts.crv.times[Len(ts.crv.times)]
    /\ ts.error = "none"
    /\ RLess(ts.result, DiscountFactor(ts.crv, ts.crv.times[Len(ts.crv.times)]))

\* C17: the curve a build function returns is determined by its arguments: its
\* settlement date is the valuation date passed in advanced by SETTLEMENT_DAYS,
\* whatever the value of the global today
C17_SettlementFromArgument ==
    ts.pc \in { "built", "read" } =>
        /\ ts.crv.referenceDate = ts.valuation_date + SETTLEMENT_DAYS
        /\ build_ftk_curve(ts.today, ts.valuation_date, ts.quote_handles).referenceDate
               = ts.valuation_date + SETTLEMENT_DAYS

\* the zero yield of the base curve at the first smoothing point of the curve
\* that was read, and the extrapolated forward rate recovered from the zero
\* yield it returned at the fraction of a year h past that point
BaseZeroAtFsp == RDiv(LogLinear(ufr_crv.nodes, ufr_crv.fsp), Q(ufr_crv.fsp))

ForwardNearFsp ==
    RDiv(RSub(RMul(RAdd(Q(ufr_crv.fsp), ufr_crv.h), ufr_crv.zero),
              LogLinear(ufr_crv.nodes, ufr_crv.fsp)),
         ufr_crv.h)

RMax(a, b) == IF RLess(a, b) THEN b ELSE a

\* C21: the extrapolated curve is continuous at the first smoothing point. At the
\* horizon h past it, 1 - B(h) is at most alpha h / 2, the extrapolated forward
\* rate is within |LLFR - UFR| alpha h / 2 of the LLFR, and FSP times the distance
\* of the extrapolated zero rate from the zero rate of the base curve at the first
\* smoothing point is at most h M (M the larger distance of LLFR and UFR from that rate): all
\* three bounds vanish with h. At a whole horizon the value is the one the curve
\* returns there, and at the first smoothing point itself the curve returns the
\* zero rate of the base curve
C21_ContinuousAtFsp ==
    ufr_crv.pc = "read_near" =>
        LET B     == BetaAt(ufr_crv.alpha, ufr_crv.h)
            half  == RDiv(RMul(ufr_crv.alpha, ufr_crv.h), Q(2))
            zBase == BaseZeroAtFsp
            f     == ForwardNearFsp
            M     == RMax(Distance(ufr_crv.llfr, zBase), Distance(ufr_crv.ufr, zBase))
        IN  /\ RLeq(B, Q(1))
            /\ RLeq(RSub(Q(1), B), half)
            /\ RLeq(Distance(f, ufr_crv.llfr),
                    RMul(Distance(ufr_crv.llfr, ufr_crv.ufr), half))
            /\ RLeq(RMul(Q(ufr_crv.fsp), Distance(ufr_crv.zero, zBase)),
                    RMul(ufr_crv.h, M))
            /\ ufr_crv.h = Q(1) =>
                   ufr_crv.zero = UltimateForwardTermStructure(
                                      ufr_crv.nodes, ufr_crv.llfr, ufr_crv.ufr, ufr_crv.fsp,
                                      ufr_crv.alpha, ufr_crv.fsp + 1)
            /\ UltimateForwardTermStructure(ufr_crv.nodes, ufr_crv.llfr, ufr_crv.ufr,
                                            ufr_crv.fsp, ufr_crv.alpha, ufr_crv.fsp) = zBase

\* a curve read at the smallest horizon past its first smoothing point, with a
\* last liquid forward rate that differs from the ultimate forward rate and
\* from the zero rate of the base curve: the zero rate it returns has left the
\* base rate by less than a tenth of a unit
C21_Witness ==
    /\ ufr_crv.pc = "read_near"
    /\ ufr_crv.h = Norm(1, Pow2(MaxHalvings))
    /\ ufr_crv.llfr # ufr_crv.ufr
    /\ ufr_crv.llfr # BaseZeroAtFsp
    /\ ufr_crv.zero # BaseZeroAtFsp
    /\ ForwardNearFsp # ufr_crv.llfr
    /\ RLess(Distance(ufr_crv.zero, BaseZeroAtFsp), Norm(1, 10))

\* ------------------------------------------------------------------ C22
\* the sum of the weights of an estimator
RECURSIVE WeightSum(_, _)
WeightSum(weights, k) ==
    IF k = 0 THEN Q(0) ELSE RAdd(WeightSum(weights, k - 1), weights[k][2])

\* the horizons an estimator measures forward rates to
HorizonsOf(weights) == { weights[k][1] : k \in DOMAIN weights }

\* C22 as stated: the fixed weights the 2015 estimator has been applied with sum
\* to less than one
C22_WeightsSumBelowOne ==
    (ts.pc = "llfr" /\ 2015 \in ts.done) =>
        RLess(WeightSum(WEIGHTS_2015, Len(WEIGHTS_2015)), Q(1))

\* C22, amended: the 2015 estimator takes forward rates from its first smoothing
\* point to four horizons with the fixed weights 1, 1/2, 1/4, 1/8, whose sum 15/8
\* is more than one, and scales the sum by the fixed omega 8/15; the 2024
\* estimator takes two of these horizons, with other weights, and omega = 1
C22_TwoEstimators ==
    /\ Len(WEIGHTS_2015) = 4
    /\ WeightSum(WEIGHTS_2015, Len(WEIGHTS_2015)) = Norm(15, 8)
    /\ RLess(Q(1), WeightSum(WEIGHTS_2015, Len(WEIGHTS_2015)))
    /\ OMEGA_2015 = Norm(8, 15)
    /\ OMEGA_2024 = Q(1)
    /\ Len(WEIGHTS_2024) < Len(WEIGHTS_2015)
    /\ HorizonsOf(WEIGHTS_2024) # HorizonsOf(WEIGHTS_2015)
    /\ \A k \in DOMAIN WEIGHTS_2024 :
           \A j \in DOMAIN WEIGHTS_2015 :
               WEIGHTS_2024[k][1] = WEIGHTS_2015[j][1] => WEIGHTS_2024[k][2] # WEIGHTS_2015[j][2]
    /\ (ts.pc = "llfr" /\ 2015 \in ts.done) =>
           ts.llfr[2015] =
               RMul(OMEGA_2015,
                    RAdd(RAdd(RMul(Q(1), forwardRate(ts.nodes, 20, 25)),
                              RMul(Norm(1, 2), forwardRate(ts.nodes, 20, 30))),
                         RAdd(RMul(Norm(1, 4), forwardRate(ts.nodes, 20, 40)),
                              RMul(Norm(1, 8), forwardRate(ts.nodes, 20, 50)))))
    /\ (ts.pc = "llfr" /\ 2024 \in ts.done) =>
           ts.llfr[2024] =
               RAdd(RMul(Norm(2, 3), forwardRate(ts.nodes, 30, 40)),
                    RMul(Norm(1, 3), forwardRate(ts.nodes, 30, 50)))

\* both estimators have been applied to a curve whose forward rates differ, and
\* they disagree
C22_Witness ==
    /\ ts.pc = "llfr"
    /\ ts.done = { 2015, 2024 }
    /\ forwardRate(ts.nodes, 20, 25) # forwardRate(ts.nodes, 20, 50)
    /\ ts.llfr[2015] # ts.llfr[2024]
    /\ ts.llfr[2015] # Q(0)

\* ------------------------------------------------------------------ C26
\* the forward rates an estimator sums
ForwardsOf(nodes, fsp, weights) ==
    { forwardRate(nodes, fsp, weights[k][1]) : k \in DOMAIN weights }

\* the forward rates summed for the curve of the estimator run, by vintage
ForwardsSummed(v) ==
    IF v = 2015 THEN ForwardsOf(ts.nodes, FIRST_SMOOTHING_POINT_2015, WEIGHTS_2015)
    ELSE ForwardsOf(ts.nodes, FIRST_SMOOTHING_POINT_2024, WEIGHTS_2024)

\* x is a weighted average of the rates F
AverageOf(x, F) ==
    /\ \E lo \in F : RLeq(lo, x)
    /\ \E hi \in F : RLeq(x, hi)
    /\ \A f \in F : F = { f } => x = f

\* C26 as stated, of the value the function returns: when every forward rate in
\* the sum equals f the result is f, and the result always lies between the
\* smallest and the largest forward rate
C26_ResultIsWeightedAverage ==
    ts.pc = "llfr" =>
        \A v \in ts.done : AverageOf(ts.llfr_float[v], ForwardsSummed(v))

\* C26, amended: for both vintages omega times the sum of the weights is exactly
\* one, so in exact arithmetic calculate_last_liquid_forward is a weighted average
\* of its forward rates: it is f when every forward rate is f and it lies between
\* the smallest and the largest forward rate (the function itself rounds every
\* product and sum to a float, which C26_ResultIsWeightedAverage is about)
C26_WeightedAverageInExactArithmetic ==
    /\ RMul(OMEGA_2015, WeightSum(WEIGHTS_2015, Len(WEIGHTS_2015))) = Q(1)
    /\ RMul(OMEGA_2024, WeightSum(WEIGHTS_2024, Len(WEIGHTS_2024))) = Q(1)
    /\ ts.pc = "llfr" =>
           \A v \in ts.done : AverageOf(ts.llfr[v], ForwardsSummed(v))

\* both estimators have been applied: to a curve whose forward rates differ, the
\* results strictly inside their range, or to a curve whose forward rates are all
\* the same non-zero rate
C26_Witness ==
    /\ ts.pc = "llfr"
    /\ ts.done = { 2015, 2024 }
    /\ \/ \A v \in ts.done :
              /\ \E lo \in ForwardsSummed(v) : RLess(lo, ts.llfr[v])
              /\ \E hi \in ForwardsSummed(v) : RLess(ts.llfr[v], hi)
       \/ \A v \in ts.done : \E f \in ForwardsSummed(v) :
              ForwardsSummed(v) = { f } /\ f # Q(0) /\ ts.llfr[v] = f

\* ------------------------------------------------------------------ C23
\* the digits YYYYMMDD of a date, the month and the day padded to two digits
YYYYMMDD(date) ==
    << date.year \div 1000, (date.year \div 100) % 10, (date.year \div 10) % 10,
       date.year % 10,
       date.month \div 10, date.month % 10,
       date.dayOfMonth \div 10, date.dayOfMonth % 10 >>

\* the keys that have been built in this state
KeysBuilt == { ts.swap_rates, ts.dnb_ufr_zero_rates } \ { << >> }

\* C23: the key year*10000 + month*100 + day that read_swap_quotes and
\* read_dnb_ufr_zero_rates build is the 8-digit YYYYMMDD encoding of the date for
\* every four-digit year, and it is injective: no other date has the same key
C23_KeyIsYYYYMMDD ==
    ts.pc = "lookup" =>
        \A key \in KeysBuilt :
            /\ Len(key) = 8
            /\ key = YYYYMMDD(ts.date)
            /\ \A other \in DateInputs : str(date_as_int(other)) = key => other = ts.date

\* both functions have built the key of a date with a one-digit month and a
\* two-digit day: the month takes two digits of the key, the first of them 0
C23_Witness ==
    /\ ts.pc = "lookup"
    /\ Cardinality(KeysBuilt) = 1
    /\ ts.swap_rates # << >>
    /\ ts.dnb_ufr_zero_rates # << >>
    /\ ts.date.month = 1
    /\ ts.date.dayOfMonth > 9

\* ------------------------------------------------------------------ C24
\* the notifications that the j-th linkTo of the run has produced
NotificationsOf(j) ==
    LET n == Cardinality(ts.registered)
    IN  [ k \in 1..n |-> ts.notified[(j - 1) * n + k] ]

\* C24: every linkTo on a RelinkableQuoteHandle notifies each registered observer
\* exactly once, and the callback runs after the relink, so it reads the new
\* value: three linkTo calls with 0.0, 0.01 and 20.01 produce exactly three
\* notifications that see those values in order, and a relink of a quote handle of
\* swap_quotes, as bump_quote does it, notifies each LLFR observer exactly once
C24_OneNotificationPerLink ==
    ts.pc = "observable" =>
        /\ Len(ts.notified) = Len(ts.links) * Cardinality(ts.registered)
        /\ \A j \in DOMAIN ts.links :
               /\ \A o \in ts.registered :
                      Cardinality({ k \in DOMAIN NotificationsOf(j) :
                                        NotificationsOf(j)[k].observer = o }) = 1
               /\ \A k \in DOMAIN NotificationsOf(j) :
                      NotificationsOf(j)[k].value = << ts.links[j] >>
        /\ (ts.registered = { "observer" } /\ ts.links = << 0, 1, 2001 >>) =>
               ts.notified = << [ observer |-> "observer", value |-> << 0 >> ],
                                [ observer |-> "observer", value |-> << 1 >> ],
                                [ observer |-> "observer", value |-> << 2001 >> ] >>

\* the three relinks of the example have been made
C24_Witness ==
    /\ ts.pc = "observable"
    /\ ts.registered = { "observer" }
    /\ ts.links = << 0, 1, 2001 >>
    /\ Len(ts.notified) = 3

\* ------------------------------------------------------------------ C25
\* C25: if a repricing step raises inside an iteration, after bump_quote(quote,
\* BUMP) and before bump_quote(quote, -BUMP), the bumped quote is still restored:
\* the values of swap_quotes are the ones of before the loop when the loop is left
\* through the error
C25_RestoredOnError ==
    pc = "raised" => Values(swap_quotes) = Values(quotes_before)

\* ------------------------------------------------------------------ C27
\* C27: once the sensitivity loop has completed, all derived state equals its
\* value of before the loop: llfr_2015_handle and llfr_2024_handle hold the values
\* they held, and the four pricers return the present values they returned
C27_DerivedStateRestored ==
    pc = "done" =>
        LET before == MarketAfterSetup(today, quotes_before)
        IN  /\ llfr_2015_handle = before.llfr_2015
            /\ llfr_2024_handle = before.llfr_2024
            /\ \A c \in Curves :
                   liabilities_pricer(c, read_ftk(Market), liabilities) = npv[c]

\* ------------------------------------------------------------------ C28
\* the 2024 LLFR of one curve
LLFR_2024_Of(crv) ==
    calculate_last_liquid_forward(crv.nodes, FIRST_SMOOTHING_POINT_2024, WEIGHTS_2024,
                                  OMEGA_2024)

\* the market as it was when the loop started
MarketBefore == MarketAfterSetup(today, quotes_before)

\* C28: the list that llfr_2024 averages always holds exactly AVERAGE_POINTS curve
\* handles, the AVERAGE_POINTS - 1 curves of the previous dates and then
\* ftk_handle; a bump of a quote of today's swap_quotes changes the term of
\* ftk_handle only: the LLFR of every previous date's curve is what it was before
\* the loop, and what llfr_2024() returns has moved by 1 / AVERAGE_POINTS of the
\* change in the LLFR of today's curve
C28_OnlyTodaysTermMoves ==
    LET now     == read_ftk(Market)
        handles == previous_ftk_curves_handles(now)
    IN  /\ Len(handles) = AVERAGE_POINTS
        /\ handles[AVERAGE_POINTS] = now.ftk
        /\ \A k \in 1..(AVERAGE_POINTS - 1) :
               /\ handles[k] = previous_ftk_curves[k]
               /\ LLFR_2024_Of(handles[k]) = LLFR_2024_Of(MarketBefore.previous[k])
        /\ RSub(llfr_2024(now), llfr_2024(MarketBefore)) =
               RDiv(RSub(LLFR_2024_Of(now.ftk), LLFR_2024_Of(MarketBefore.ftk)),
                    Q(AVERAGE_POINTS))

\* a quote is bumped and the LLFR of today's curve has moved, the 2024 LLFR by
\* a fifth of it
C28_Witness ==
    /\ pc = "reprice"
    /\ Moved # { }
    /\ LLFR_2024_Of(read_ftk(Market).ftk) # LLFR_2024_Of(MarketBefore.ftk)
    /\ llfr_2024(read_ftk(Market)) # llfr_2024(MarketBefore)
    /\ \E k \in 1..(AVERAGE_POINTS - 1) :
           LLFR_2024_Of(previous_ftk_curves[k]) # LLFR_2024_Of(MarketBefore.ftk)

====
